---- MODULE Spec2Model ----
(***************************************************************************)
(* School sports-court booking application (src/app.py): a Flask app over  *)
(* an SQLite store.  The model covers the timetable generator, the         *)
(* student lookup, the booking insert under the UNIQUE(booking_date,       *)
(* period, sport) constraint, and the admin handlers.  Every SQL statement *)
(* runs on its own connection and commits on its own, and the server       *)
(* handles requests on several threads, so a handler is a sequence of      *)
(* atomic steps, one per SQL statement, that other requests interleave     *)
(* with.                                                                   *)
(***************************************************************************)
EXTENDS Integers, Sequences, FiniteSets, TLC

VARIABLES
    bookings,        \* rows of table bookings
    students,        \* rows of table students
    settings,        \* table settings: key -> value (TEXT)
    nextBookingId,   \* AUTOINCREMENT counter of bookings.id
    nextStudentId,   \* AUTOINCREMENT counter of students.id
    session,         \* per browser session: session["admin_logged_in"]
    redirected,      \* per browser session: admin_required answered its last admin
                     \* request with redirect(url_for("admin_login"))
    pc,              \* per submit_booking request: the statement it is at
    form,            \* per request: the slot its form asks for, once validated
    args,            \* per request: find_or_create_student's name, email, grade
    leader_id,       \* per request: find_or_create_student's result
    threshold,       \* per request: the threshold submit_booking has read
    resp,            \* per request: the page it rendered
    written,         \* history, per request: it has changed a row of table students
    freed,           \* history: the slot of the row admin_delete removed last
    book_page        \* GET /book: its booking_date and the page it rendered last

vars == <<bookings, students, settings, nextBookingId, nextStudentId, session, redirected,
          pc, form, args, leader_id, threshold, resp, written, freed, book_page>>

NULL == "NULL"

-----------------------------------------------------------------------------
(* Dates.  A date value is its proleptic Gregorian ordinal, as             *)
(* date.toordinal() gives it; the model's calendar is the year 2024.       *)

\* date(2024, 1, 1).toordinal()
FirstOrdinal == 738886

\* number of days of 2024, from 1 January on, that GET /book is asked for
NumDays == 180

DateRange == FirstOrdinal .. (FirstOrdinal + NumDays - 1)

\* date.weekday(): Monday = 0 ... Sunday = 6
Weekday(d) == (d + 6) % 7

\* days of the months of 2024
MonthDays == <<31, 29, 31, 30, 31, 30, 31, 31, 30, 31, 30, 31>>

RECURSIVE DaysBefore(_)
DaysBefore(m) == IF m = 1 THEN 0 ELSE DaysBefore(m - 1) + MonthDays[m - 1]

MonthOf(d) ==
    LET doy == d - FirstOrdinal + 1
    IN  CHOOSE m \in 1..12 : DaysBefore(m) < doy /\ doy <= DaysBefore(m) + MonthDays[m]

DayOf(d) == d - FirstOrdinal + 1 - DaysBefore(MonthOf(d))

\* "%02d"
TwoDigits(n) == IF n < 10 THEN "0" \o ToString(n) ELSE ToString(n)

\* date.isoformat(), for a date of 2024
IsoFormat(d) == "2024-" \o TwoDigits(MonthOf(d)) \o "-" \o TwoDigits(DayOf(d))

\* time.strftime("%H:%M") of a time given in minutes since midnight
FormatHM(t) == TwoDigits(t \div 60) \o ":" \o TwoDigits(t % 60)

-----------------------------------------------------------------------------
(* Timetable: get_day_periods.                                             *)

\* one of the three loops: n periods back to back from cur on
RECURSIVE AppendPeriods(_, _, _, _)
AppendPeriods(periods, cur, n, period_length) ==
    IF n = 0 THEN [periods |-> periods, cur |-> cur]
    ELSE LET pstart == cur
             pend   == pstart + period_length
         IN  AppendPeriods(
                 Append(periods, [period |-> Len(periods) + 1,
                                  start  |-> FormatHM(pstart),
                                  end    |-> FormatHM(pend)]),
                 pend, n - 1, period_length)

\* mutant: the 45-minute days taken to be Monday and Tuesday
period_length_MonTue(wd) == IF wd \in {0, 1} THEN 45 ELSE 40

period_length(wd) == IF wd \in {0, 2} THEN 45 ELSE 40

\* mutant: eight periods on every school day
total_periods_Eight(wd) == 8

total_periods(wd) == IF wd \in {0, 2} THEN 8 ELSE 9

\* mutant: the first period closed on Wednesday (weekday 2) instead of Thursday
FirstPeriodClosed_Wednesday(wd) == wd = 2

\* the first period of a Thursday is not bookable: "if wd == 3 and periods"
FirstPeriodClosed(wd) == wd = 3

\* the marking of the periods: all bookable, but the last, and the first of a Thursday
MarkBookable(periods, wd) ==
    [i \in 1..Len(periods) |->
        [period   |-> periods[i].period,
         start    |-> periods[i].start,
         end      |-> periods[i].end,
         bookable |-> ~(i = Len(periods)) /\ ~(FirstPeriodClosed(wd) /\ i = 1)]]

get_day_periods(target_date) ==
    LET wd == Weekday(target_date)
    IN  IF wd > 3 THEN << >>
        ELSE LET start_time == 7 * 60 + 30
                 first4 == AppendPeriods(<< >>, start_time, 4, period_length(wd))
                 next3  == AppendPeriods(first4.periods, first4.cur + 25, 3, period_length(wd))
                 remaining == total_periods(wd) - Len(next3.periods)
                 rest   == AppendPeriods(next3.periods, next3.cur + 15, remaining, period_length(wd))
             IN  MarkBookable(rest.periods, wd)

-----------------------------------------------------------------------------
(* Parsing of form values.                                                 *)

\* the integers a form value can denote
ParseRange == 0..99

\* int(s): the number, or -1 for the ValueError of a value that is no number
IntOf(s) ==
    IF \E n \in ParseRange : ToString(n) = s
    THEN CHOOSE n \in ParseRange : ToString(n) = s
    ELSE -1

\* str.isdigit()
IsDigit(s) == \E n \in ParseRange : ToString(n) = s

\* the date written without zero padding, which strptime's %m and %d accept too
LooseFormat(d) == "2024-" \o ToString(MonthOf(d)) \o "-" \o ToString(DayOf(d))

\* the two spellings of the dates of DateRange, day by day (tabulated once)
IsoTable == [i \in 1..NumDays |-> IsoFormat(FirstOrdinal + i - 1)] \o << >>

LooseTable == [i \in 1..NumDays |-> LooseFormat(FirstOrdinal + i - 1)] \o << >>

\* datetime.strptime(s, "%Y-%m-%d").date(): the date, or -1 for the ValueError
strptime(s) ==
    IF \E i \in 1..NumDays : IsoTable[i] = s \/ LooseTable[i] = s
    THEN FirstOrdinal - 1 + CHOOSE i \in 1..NumDays : IsoTable[i] = s \/ LooseTable[i] = s
    ELSE -1

\* str.strip(), on the values the forms send
Strip(s) ==
    CASE s = " Ali"      -> "Ali"
      [] s = "A@S.net "  -> "A@S.net"
      [] OTHER           -> s

\* str.lower(), on the values the forms send
Lower(s) ==
    CASE s = "A@S.net"   -> "a@s.net"
      [] s = "A@S.net "  -> "a@s.net "
      [] OTHER           -> s

\* re.findall(r"\d{1,2}", s)[-1] as a number, -1 when s holds no digit
LastDigits(s) ==
    CASE s = "GRADE 11" -> 11
      [] s = "12"       -> 12
      [] s = "Y13"      -> 13
      [] OTHER          -> -1

\* str.upper(), on the grades the forms send
Upper(s) ==
    CASE s = "Grade 11" -> "GRADE 11"
      [] s = "y13"      -> "Y13"
      [] OTHER          -> s

normalize_grade_input(raw) ==
    IF raw = "" THEN NULL
    ELSE LET s == Upper(Strip(raw))
             val == LastDigits(s)
         IN  IF val = 11 \/ val = 12 THEN "Year 12"
             ELSE IF val = 13 THEN "Year 13"
             ELSE Strip(raw)

-----------------------------------------------------------------------------
(* The values the requests send.                                           *)

Monday   == FirstOrdinal
Thursday == FirstOrdinal + 3
Friday   == FirstOrdinal + 4

DateInputs == {IsoFormat(Monday), LooseFormat(Monday), IsoFormat(Thursday),
               IsoFormat(Friday), "tomorrow", ""}

PeriodInputs == {"1", "9", "x", ""}

SportInputs == {"Football", "Badminton"}

NameInputs == {"Ali", " Ali", "Sara"}

EmailInputs == {"", "a@s.net", "A@S.net ", "b@s.net"}

GradeInputs == {"Grade 11", "12"}

\* the forms of one student: every date, period and sport
SlotForms ==
    [booking_date : DateInputs, period : PeriodInputs, sport : SportInputs \cup {""},
     name : {"Ali", ""}, email : {"a@s.net"}, grade : {"12"}]

\* the forms of every student, for one slot
StudentForms ==
    [booking_date : {IsoFormat(Monday)}, period : {"1"}, sport : {"Football"},
     name : NameInputs, email : EmailInputs, grade : GradeInputs]

FormInputs == SlotForms \cup StudentForms

ThresholdInputs == {"1", "many", ""}

Credentials == {"admin", "adminpass", "guess"}

\* the submit_booking requests that can be in progress together
NumRequests == 2

Requests == 1..NumRequests

\* the workers that serve requests one after another while the admin is at work
NumWorkers == 1

Workers == 1..NumWorkers

\* the browser sessions
Sessions == {"s1"}

\* bounds on the AUTOINCREMENT counters and on the penalty counter
MaxBookingId == 2

MaxStudentId == 2

MaxBlackPoints == 1

-----------------------------------------------------------------------------
(* Configuration.                                                          *)

ADMIN_USER == "admin"

ADMIN_PASS == "adminpass"

BLACKPOINTS_DEFAULT_THRESHOLD == 3

MSG_MISSING == "Missing required fields."

MSG_INVALID_DATE == "Invalid date format."

MSG_NOT_BOOKABLE == "Selected period cannot be booked."

MSG_FLAGGED == "Booked successfully. You have been flagged: please see the supervisor in person."

MSG_BOOKED == "Booked successfully. See you at the court!"

MSG_SLOT_TAKEN == "Slot already taken. Try a different period or sport."

MSG_FAILED == "Failed: error"

MSG_NO_SCHOOL == "No school on this date (only Mon-Thu supported)."

\* an exception no handler catches
SERVER_ERROR == "500 Internal Server Error"

NoPage == [page |-> NULL, msg |-> NULL, booking_date |-> NULL, periods |-> << >>]

NoForm == [booking_date |-> NULL, period |-> 0, sport |-> NULL]

NoArgs == [name |-> NULL, email |-> NULL, grade |-> NULL]

-----------------------------------------------------------------------------
(* The store.                                                              *)

Init ==
    /\ bookings = {}
    /\ students = {}
    /\ settings = [blackpoint_threshold |-> ToString(BLACKPOINTS_DEFAULT_THRESHOLD)]
    /\ nextBookingId = 1
    /\ nextStudentId = 1
    /\ session = [s \in Sessions |-> FALSE]
    /\ redirected = [s \in Sessions |-> FALSE]
    /\ pc = [r \in Requests |-> "idle"]
    /\ form = [r \in Requests |-> NoForm]
    /\ args = [r \in Requests |-> NoArgs]
    /\ leader_id = [r \in Requests |-> 0]
    /\ threshold = [r \in Requests |-> 0]
    /\ resp = [r \in Requests |-> NULL]
    /\ written = [r \in Requests |-> FALSE]
    /\ freed = << >>
    /\ book_page = NoPage

Slot(b) == <<b.booking_date, b.period, b.sport>>

\* SELECT COUNT(*) ... WHERE booking_date = ? AND period = ? AND sport = ?  > 0
is_slot_taken(booking_date, period, sport) ==
    \E b \in bookings : Slot(b) = <<booking_date, period, sport>>

\* cursor.fetchone() of a SELECT with no ORDER BY: the row of the least rowid
FirstRow(rows) == CHOOSE x \in rows : \A y \in rows : x.id <= y.id

get_setting(key, default) ==
    IF key \in DOMAIN settings THEN settings[key] ELSE default

store == <<bookings, students, settings, nextBookingId, nextStudentId>>

locals == <<pc, form, args, leader_id, threshold, resp, written>>

-----------------------------------------------------------------------------
(* GET /book: the timetable page of a date.                                *)

\* get_day_periods of the dates of DateRange, day by day (tabulated once)
Timetable == [i \in 1..NumDays |-> get_day_periods(FirstOrdinal + i - 1)] \o << >>

BookInputs == {IsoTable[i] : i \in 1..NumDays} \cup {LooseFormat(Monday), "tomorrow", ""}

\* the dates date.today() gives
TodayDates == {Monday, Friday}

book(ds, today) ==
    LET booking_date == IF ds # "" /\ strptime(ds) # -1 THEN strptime(ds) ELSE today
        periods == Timetable[booking_date - FirstOrdinal + 1]
    IN  /\ book_page' =
              IF periods = << >>
              THEN [page |-> "FAIL_HTML", msg |-> MSG_NO_SCHOOL,
                    booking_date |-> IsoFormat(booking_date), periods |-> << >>]
              ELSE [page |-> "BOOK_HTML", msg |-> NULL,
                    booking_date |-> IsoFormat(booking_date), periods |-> periods]
        /\ UNCHANGED <<store, session, redirected, locals, freed>>

-----------------------------------------------------------------------------
(* POST /submit_booking.                                                   *)

\* the handler returns a page: its frame is gone, the request and the page stay
Render(r, msg) ==
    /\ pc' = [pc EXCEPT ![r] = "done"]
    /\ resp' = [resp EXCEPT ![r] = msg]
    /\ leader_id' = [leader_id EXCEPT ![r] = 0]
    /\ threshold' = [threshold EXCEPT ![r] = 0]

\* mutant: "if not p", the bookable flag not looked at
CannotBeBooked_NoFlag(periods, n) == ~ \E i \in 1..Len(periods) : periods[i].period = n

\* "if not p or not p['bookable']", p the period of that number, if there is one
CannotBeBooked(periods, n) ==
    \/ ~ \E i \in 1..Len(periods) : periods[i].period = n
    \/ ~ periods[CHOOSE i \in 1..Len(periods) : periods[i].period = n].bookable

\* SELECT * FROM students WHERE email = ?
StudentsByEmail(email) == {x \in students : x.email = email}

\* SELECT * FROM students WHERE name = ?
StudentsByName(name) == {x \in students : x.name = name}

\* "if email:" and the SELECT by email gave a row
EmailMatches(email) == email # "" /\ StudentsByEmail(Lower(Strip(email))) # {}

\* lines 593-622, then find_or_create_student up to its first SELECT
submit_booking(r, booking_date, period, sport, name, email_raw, grade_raw) ==
    /\ pc[r] = "idle"
    /\ LET email == Lower(Strip(email_raw))
           bdate == strptime(booking_date)
           periods == IF bdate = -1 THEN << >> ELSE Timetable[bdate - FirstOrdinal + 1]
       IN  IF "" \in {booking_date, period, sport, name}
           THEN Render(r, MSG_MISSING) /\ UNCHANGED <<form, args>>
           ELSE IF bdate = -1
           THEN Render(r, MSG_INVALID_DATE) /\ UNCHANGED <<form, args>>
           ELSE IF periods # << >> /\ IntOf(period) = -1
           THEN Render(r, SERVER_ERROR) /\ UNCHANGED <<form, args>>
           ELSE IF CannotBeBooked(periods, IntOf(period))
           THEN Render(r, MSG_NOT_BOOKABLE) /\ UNCHANGED <<form, args>>
           ELSE /\ form' = [form EXCEPT ![r] =
                       [booking_date |-> booking_date, period |-> IntOf(period),
                        sport |-> sport]]
                /\ args' = [args EXCEPT ![r] =
                       [name |-> name, email |-> email,
                        grade |-> normalize_grade_input(grade_raw)]]
                /\ UNCHANGED <<resp, threshold>>
                /\ IF EmailMatches(email)
                   THEN /\ leader_id' = [leader_id EXCEPT ![r] =
                               FirstRow(StudentsByEmail(Lower(Strip(email)))).id]
                        /\ pc' = [pc EXCEPT ![r] = "update_student"]
                   ELSE /\ leader_id' = leader_id
                        /\ pc' = [pc EXCEPT ![r] = "select_name"]
    /\ UNCHANGED <<store, session, redirected, written, freed, book_page>>

\* find_or_create_student, the row of the email found: UPDATE students SET name, grade
update_student(r) ==
    /\ pc[r] = "update_student"
    /\ students' = {IF x.id = leader_id[r]
                    THEN [x EXCEPT !.name = Strip(args[r].name), !.grade = args[r].grade]
                    ELSE x : x \in students}
    /\ written' = [written EXCEPT ![r] = students' # students]
    /\ pc' = [pc EXCEPT ![r] = "insert_booking"]
    /\ args' = [args EXCEPT ![r] = NoArgs]
    /\ UNCHANGED <<bookings, settings, nextBookingId, nextStudentId, session, redirected,
                   form, leader_id, threshold, resp, freed, book_page>>

\* find_or_create_student, "fallback: search by name"
select_name(r) ==
    /\ pc[r] = "select_name"
    /\ IF StudentsByName(Strip(args[r].name)) # {}
       THEN /\ leader_id' = [leader_id EXCEPT ![r] =
                   FirstRow(StudentsByName(Strip(args[r].name))).id]
            /\ pc' = [pc EXCEPT ![r] = "insert_booking"]
            /\ args' = [args EXCEPT ![r] = NoArgs]
       ELSE /\ pc' = [pc EXCEPT ![r] = "insert_student"]
            /\ UNCHANGED <<leader_id, args>>
    /\ UNCHANGED <<store, session, redirected, form, threshold, resp, written, freed, book_page>>

\* find_or_create_student, "create": INSERT INTO students
insert_student(r) ==
    /\ pc[r] = "insert_student"
    /\ nextStudentId <= MaxStudentId
    /\ students' = students \cup
           {[id |-> nextStudentId, name |-> Strip(args[r].name),
             email |-> IF args[r].email # "" THEN Lower(Strip(args[r].email)) ELSE NULL,
             grade |-> args[r].grade, black_points |-> 0]}
    /\ nextStudentId' = nextStudentId + 1
    /\ leader_id' = [leader_id EXCEPT ![r] = nextStudentId]
    /\ written' = [written EXCEPT ![r] = TRUE]
    /\ pc' = [pc EXCEPT ![r] = "insert_booking"]
    /\ args' = [args EXCEPT ![r] = NoArgs]
    /\ UNCHANGED <<bookings, settings, nextBookingId, session, redirected,
                   form, threshold, resp, freed, book_page>>

\* mutant: the table declared without the UNIQUE constraint
UniqueViolated_None(booking_date, period, sport) == FALSE

\* the UNIQUE(booking_date, period, sport) constraint: the INSERT raises IntegrityError
UniqueViolated(booking_date, period, sport) == is_slot_taken(booking_date, period, sport)

\* create_booking: the INSERT, its commit, and append_to_excel, which may raise
create_booking(r, excel_raises) ==
    /\ pc[r] = "insert_booking"
    /\ IF UniqueViolated(form[r].booking_date, form[r].period, form[r].sport)
       THEN /\ Render(r, MSG_SLOT_TAKEN)
            /\ UNCHANGED <<bookings, nextBookingId>>
       ELSE /\ nextBookingId <= MaxBookingId
            /\ bookings' = bookings \cup
                   {[id |-> nextBookingId, booking_date |-> form[r].booking_date,
                     period |-> form[r].period, sport |-> form[r].sport,
                     leader_student_id |-> leader_id[r]]}
            /\ nextBookingId' = nextBookingId + 1
            /\ IF excel_raises
               THEN Render(r, MSG_FAILED)
               ELSE /\ pc' = [pc EXCEPT ![r] = "get_threshold"]
                    /\ UNCHANGED <<resp, leader_id, threshold>>
    /\ UNCHANGED <<students, settings, nextStudentId, session, redirected,
                   form, args, written, freed, book_page>>

\* submit_booking after a successful create_booking: the threshold setting
get_threshold(r) ==
    /\ pc[r] = "get_threshold"
    /\ threshold' = [threshold EXCEPT ![r] =
           IntOf(get_setting("blackpoint_threshold", ToString(BLACKPOINTS_DEFAULT_THRESHOLD)))]
    /\ pc' = [pc EXCEPT ![r] = "select_black_points"]
    /\ UNCHANGED <<store, session, redirected, form, args, leader_id, resp, written, freed, book_page>>

\* mutant: flagged only above the threshold
IsFlagged_Above(leader_bp, thr) == leader_bp > thr

\* "if leader_bp >= threshold"
IsFlagged(leader_bp, thr) == leader_bp >= thr

\* "row['black_points'] if row else 0" of SELECT black_points FROM students WHERE id = ?
LeaderBlackPoints(id) ==
    LET rows == {x \in students : x.id = id}
    IN  IF rows # {} THEN FirstRow(rows).black_points ELSE 0

\* the SELECT of the leader's black points, and the success page
select_black_points(r) ==
    /\ pc[r] = "select_black_points"
    /\ IF IsFlagged(LeaderBlackPoints(leader_id[r]), threshold[r])
       THEN Render(r, MSG_FLAGGED)
       ELSE Render(r, MSG_BOOKED)
    /\ UNCHANGED <<store, session, redirected, form, args, written, freed, book_page>>

\* the response is sent and the worker takes the next request
return(r) ==
    /\ pc[r] = "done"
    /\ pc' = [pc EXCEPT ![r] = "idle"]
    /\ form' = [form EXCEPT ![r] = NoForm]
    /\ resp' = [resp EXCEPT ![r] = NULL]
    /\ written' = [written EXCEPT ![r] = FALSE]
    /\ UNCHANGED <<store, session, redirected, args, leader_id, threshold, freed, book_page>>

-----------------------------------------------------------------------------
(* The admin routes.                                                       *)

\* mutant: the routes without the @admin_required decorator
admin_required_Open(s) == TRUE

\* admin_required: "if session.get('admin_logged_in')"
admin_required(s) == session[s]

\* admin_required's "return redirect(url_for('admin_login'))", reached when the
\* session is not logged in; otherwise the response is the handler's own
Redirect(s) == [redirected EXCEPT ![s] = ~ admin_required(s)]

admin_login(s, u, p) ==
    /\ session' = IF u = ADMIN_USER /\ p = ADMIN_PASS
                  THEN [session EXCEPT ![s] = TRUE]
                  ELSE session
    /\ redirected' = [redirected EXCEPT ![s] = FALSE]
    /\ UNCHANGED <<store, locals, freed, book_page>>

admin_logout(s) ==
    /\ session' = [session EXCEPT ![s] = FALSE]
    /\ redirected' = [redirected EXCEPT ![s] = FALSE]
    /\ UNCHANGED <<store, locals, freed, book_page>>

\* mutant: DELETE FROM bookings, the WHERE clause forgotten
DeleteBooking_All(bid) == {}

\* DELETE FROM bookings WHERE id = ?
DeleteBooking(bid) == {b \in bookings : b.id # bid}

admin_delete(s, bid) ==
    /\ IF admin_required(s)
       THEN /\ bookings' = DeleteBooking(bid)
            /\ freed' = IF \E b \in bookings : b.id = bid
                        THEN Slot(CHOOSE b \in bookings : b.id = bid)
                        ELSE freed
       ELSE UNCHANGED <<bookings, freed>>
    /\ redirected' = Redirect(s)
    /\ UNCHANGED <<students, settings, nextBookingId, nextStudentId, session,
                   locals, book_page>>

\* mutant: the UPDATE without its WHERE clause
AddBlackPoint_All(student_id) ==
    {[x EXCEPT !.black_points = @ + 1] : x \in students}

\* UPDATE students SET black_points = black_points + 1 WHERE id = ?
AddBlackPoint(student_id) ==
    {IF x.id = student_id THEN [x EXCEPT !.black_points = @ + 1] ELSE x : x \in students}

admin_redflag(s, student_id) ==
    /\ \A x \in students : x.id = student_id => x.black_points < MaxBlackPoints
    /\ students' = IF admin_required(s) THEN AddBlackPoint(student_id) ELSE students
    /\ redirected' = Redirect(s)
    /\ UNCHANGED <<bookings, settings, nextBookingId, nextStudentId, session,
                   locals, freed, book_page>>

\* set_setting: INSERT OR REPLACE INTO settings, the value as str(value)
set_setting(key, value) == [settings EXCEPT ![key] = ToString(value)]

admin_settings(s, thr) ==
    /\ settings' = IF admin_required(s) /\ thr # "" /\ IsDigit(thr)
                   THEN set_setting("blackpoint_threshold", IntOf(thr))
                   ELSE settings
    /\ redirected' = Redirect(s)
    /\ UNCHANGED <<bookings, students, nextBookingId, nextStudentId, session,
                   locals, freed, book_page>>

-----------------------------------------------------------------------------
(* Specifications.                                                         *)

\* one step of a submit_booking request, its form drawn from forms
Submit(r, forms) ==
    \/ \E f \in forms :
           submit_booking(r, f.booking_date, f.period, f.sport, f.name, f.email, f.grade)
    \/ update_student(r)
    \/ select_name(r)
    \/ insert_student(r)
    \/ \E excel_raises \in BOOLEAN : create_booking(r, excel_raises)
    \/ get_threshold(r)
    \/ select_black_points(r)

Admin ==
    \E s \in Sessions :
        \/ \E u \in Credentials, p \in Credentials : admin_login(s, u, p)
        \/ admin_logout(s)
        \/ \E bid \in 1..(MaxBookingId + 1) : admin_delete(s, bid)
        \/ \E student_id \in 1..(MaxStudentId + 1) : admin_redflag(s, student_id)
        \/ \E thr \in ThresholdInputs : admin_settings(s, thr)

Next ==
    \/ \E r \in Workers : Submit(r, FormInputs) \/ return(r)
    \/ Admin

\* the application: every handler, the admin's requests interleaved with the steps
\* of the submit_booking requests that NumWorkers workers serve one after another
Spec == Init /\ [][Next]_vars

\* the race for a slot: NumRequests submit_booking requests in every interleaving,
\* each worker serving one, on the empty store
NextRace == \E r \in Requests : Submit(r, FormInputs)

SpecRace == Init /\ [][NextRace]_vars

\* the bookings table under concurrent requests: NumRequests workers serving
\* submit_booking requests in every interleaving with a logged-in admin's deletions
NextBookings ==
    \/ \E r \in Requests : Submit(r, SlotForms) \/ return(r)
    \/ \E s \in Sessions :
           \/ admin_login(s, ADMIN_USER, ADMIN_PASS)
           \/ \E bid \in 1..(MaxBookingId + 1) : admin_delete(s, bid)

SpecBookings == Init /\ [][NextBookings]_vars

\* the timetable page, for the dates of DateRange
NextTimetable == \E ds \in BookInputs, today \in TodayDates : book(ds, today)

SpecTimetable == Init /\ [][NextTimetable]_vars

-----------------------------------------------------------------------------
(* The timetable claims, on the pages of GET /book.                        *)

\* the day of the week by the calendar: 1 January 2024 was a Monday
DayName(d) == <<"Mon", "Tue", "Wed", "Thu", "Fri", "Sat", "Sun">>[((d - FirstOrdinal) % 7) + 1]

\* the times of a day as "HH:MM" (tabulated once), and the minute a time names
HMTable == [i \in 1..1440 |-> FormatHM(i - 1)] \o << >>

Minutes(hm) == (CHOOSE i \in 1..1440 : HMTable[i] = hm) - 1

\* the date and the periods of the page
PageDay == DayName(strptime(book_page.booking_date))

PagePeriods == book_page.periods

Rendered == book_page.page # NULL

\* C4: for every date the periods are numbered 1..n consecutively, with n = 8
\* periods of 45 minutes on Monday and Wednesday, n = 9 periods of 40 minutes on
\* Tuesday and Thursday, and no period at all on Friday, Saturday and Sunday.
C4_PeriodCounts ==
    Rendered =>
        LET n   == IF PageDay \in {"Mon", "Wed"} THEN 8
                   ELSE IF PageDay \in {"Tue", "Thu"} THEN 9 ELSE 0
            len == IF PageDay \in {"Mon", "Wed"} THEN 45 ELSE 40
        IN  /\ Len(PagePeriods) = n
            /\ \A i \in 1..Len(PagePeriods) :
                   /\ PagePeriods[i].period = i
                   /\ Minutes(PagePeriods[i].end) - Minutes(PagePeriods[i].start) = len
            /\ (n = 0) <=> (book_page.page = "FAIL_HTML")

\* a Tuesday or Thursday page with its nine periods has been rendered
C4_Witness ==
    /\ book_page.page = "BOOK_HTML"
    /\ PageDay = "Tue"
    /\ Len(PagePeriods) = 9

\* C5: on a school day the last period is never bookable, the first period is
\* not bookable exactly on Thursday, and every other period is bookable.
C5_Bookable ==
    (Rendered /\ PageDay \in {"Mon", "Tue", "Wed", "Thu"}) =>
        /\ Len(PagePeriods) >= 2
        /\ \A i \in 1..Len(PagePeriods) :
               PagePeriods[i].bookable <=>
                   /\ i # Len(PagePeriods)
                   /\ ~(i = 1 /\ PageDay = "Thu")

\* a Thursday page, its first period closed, has been rendered
C5_Witness ==
    /\ book_page.page = "BOOK_HTML"
    /\ PageDay = "Thu"
    /\ ~PagePeriods[1].bookable
    /\ PagePeriods[2].bookable

\* C9: on every school day the first period starts at 07:30, each period starts
\* when the previous one ends, but for a break of 25 minutes between periods 4
\* and 5 and one of 15 minutes between periods 7 and 8; no two periods overlap,
\* and the last period ends at 14:10.
C9_Times ==
    (Rendered /\ PageDay \in {"Mon", "Tue", "Wed", "Thu"}) =>
        /\ PagePeriods[1].start = "07:30"
        /\ PagePeriods[Len(PagePeriods)].end = "14:10"
        /\ \A i \in 1..Len(PagePeriods) :
               Minutes(PagePeriods[i].start) < Minutes(PagePeriods[i].end)
        /\ \A i \in 1..(Len(PagePeriods) - 1) :
               Minutes(PagePeriods[i + 1].start) - Minutes(PagePeriods[i].end) =
                   IF i = 4 THEN 25 ELSE IF i = 7 THEN 15 ELSE 0

\* a page of a 45-minute day and its eighth period, after the second break
C9_Witness ==
    /\ book_page.page = "BOOK_HTML"
    /\ PageDay = "Wed"
    /\ Len(PagePeriods) = 8
    /\ PagePeriods[8].start = "13:25"

-----------------------------------------------------------------------------
(* The claims on the store and the requests.                               *)

\* the rows that hold the slot a request asks for
RowsOfSlot(f) ==
    {b \in bookings : b.booking_date = f.booking_date /\ b.period = f.period
                      /\ b.sport = f.sport}

\* the request has passed validation, gone through create_booking and returned
Answered(r) == pc[r] = "done" /\ form[r] # NoForm

Succeeded(r) == resp[r] \in {MSG_BOOKED, MSG_FLAGGED}

\* C1: in every reachable state, whatever the interleaving of submit_booking
\* and admin_delete requests, no two rows of bookings have the same
\* (booking_date, period, sport).
C1_UniqueSlot ==
    \A b1 \in bookings : \A b2 \in bookings :
        (b1.booking_date = b2.booking_date /\ b1.period = b2.period
         /\ b1.sport = b2.sport) => b1 = b2

\* after a deletion, a request has been refused a slot that a row holds
C1_Witness ==
    /\ freed # << >>
    /\ \E r \in Requests :
           Answered(r) /\ resp[r] = MSG_SLOT_TAKEN /\ RowsOfSlot(form[r]) # {}

\* C2: of two submit_booking requests for the same free, bookable slot, run in
\* any interleaving, exactly one reports success and stores a booking, and the
\* other gets the 'Slot already taken' failure and stores none: when both are
\* at the INSERT with the slot free, the first to run it goes on to the success
\* page with its row stored, and the other then gets 'Slot already taken'.
C2_ExactlyOneWins ==
    [][\A r1 \in Requests : \A r2 \in Requests \ {r1} :
           (pc[r1] = "insert_booking" /\ pc'[r1] # "insert_booking"
            /\ form[r1] = form[r2]) =>
               /\ (pc[r2] = "insert_booking" /\ RowsOfSlot(form[r1]) = {})
                      => /\ pc'[r1] = "get_threshold"
                         /\ \E b \in bookings' :
                                /\ bookings' = bookings \cup {b}
                                /\ b \notin bookings
                                /\ Slot(b) = <<form[r1].booking_date, form[r1].period,
                                               form[r1].sport>>
               /\ (pc[r2] \in {"get_threshold", "select_black_points", "done"}
                   /\ RowsOfSlot(form[r1]) # {})
                      => /\ resp'[r1] = MSG_SLOT_TAKEN
                         /\ pc'[r1] = "done"
                         /\ bookings' = bookings
      ]_vars

\* the threshold as table settings holds it
ConfiguredThreshold == IntOf(settings["blackpoint_threshold"])

\* C3: a successful submit_booking returns the 'please see the supervisor in
\* person' message when its student's black points have reached the threshold
\* (black_points >= blackpoint_threshold, the threshold being the configured
\* value as the request reads it after the insert), and the ordinary success
\* message when they are below it; black points never go down, so a student
\* who has reached an unchanged threshold stays there.
C3_FlaggedMessage ==
    [][/\ \A r \in Requests :
              /\ (pc[r] = "get_threshold" /\ pc'[r] # "get_threshold")
                     => threshold'[r] = ConfiguredThreshold
              /\ (pc[r] = "select_black_points" /\ pc'[r] = "done")
                     => \E x \in students :
                            /\ x.id = leader_id[r]
                            /\ resp'[r] = IF x.black_points >= threshold[r]
                                          THEN MSG_FLAGGED ELSE MSG_BOOKED
       /\ \A x \in students :
              \E y \in students' : y.id = x.id /\ y.black_points >= x.black_points
      ]_vars

\* a booking of a student at the threshold has been answered with the flag
C3_Witness ==
    \E r \in Requests :
        /\ Answered(r) /\ resp[r] = MSG_FLAGGED
        /\ \E x \in students : x.black_points >= ConfiguredThreshold

\* C6: a logged-in admin_delete of an existing booking id removes that row and
\* no other, and leaves the students and the settings as they are; the slot of
\* the row is then free, and create_booking stores a booking for any free slot;
\* admin_delete of an id that no row has changes nothing.
C6_DeleteFrame ==
    [][/\ \A s \in Sessions : \A bid \in 1..(MaxBookingId + 1) :
              (session[s] /\ admin_delete(s, bid)) =>
                  /\ \A b \in bookings : b.id # bid => b \in bookings'
                  /\ \A b \in bookings' : b \in bookings /\ b.id # bid
                  /\ students' = students
                  /\ settings' = settings
                  /\ \A b \in bookings : b.id = bid =>
                         ~ \E c \in bookings' : Slot(c) = Slot(b)
       /\ \A r \in Requests :
              (pc[r] = "insert_booking" /\ pc'[r] # "insert_booking"
               /\ RowsOfSlot(form[r]) = {})
                  => \E b \in bookings' \ bookings :
                         /\ Slot(b) = <<form[r].booking_date, form[r].period, form[r].sport>>
                         /\ bookings' = bookings \cup {b}
      ]_vars

\* the slot of a deleted row is booked again
C6_Witness ==
    /\ freed # << >>
    /\ \E b \in bookings : Slot(b) = freed

\* C7: a logged-in admin_redflag(student_id) raises the black_points of that
\* student by 1 and changes no other student, no booking and no setting; for
\* an id that no student has it changes nothing.
C7_RedflagFrame ==
    [][\A s \in Sessions : \A student_id \in 1..(MaxStudentId + 1) :
           (session[s] /\ admin_redflag(s, student_id)) =>
               /\ bookings' = bookings
               /\ settings' = settings
               /\ Cardinality(students') = Cardinality(students)
               /\ \A x \in students :
                      IF x.id = student_id
                      THEN [id |-> x.id, name |-> x.name, email |-> x.email,
                            grade |-> x.grade,
                            black_points |-> x.black_points + 1] \in students'
                      ELSE x \in students'
      ]_vars

\* one student has been red-flagged and another has not
C7_Witness ==
    \E x \in students : \E y \in students :
        x.id # y.id /\ x.black_points = 1 /\ y.black_points = 0

\* C8: every row of bookings is for a school day (Mon-Thu) and for a period
\* that get_day_periods marks bookable on that date: never a Friday or a
\* weekend, a period number the weekday does not have, the last period of a
\* day or the first period of a Thursday.
C8_BookableRows ==
    \A b \in bookings :
        LET d == strptime(b.booking_date)
        IN  /\ d # -1
            /\ DayName(d) \in {"Mon", "Tue", "Wed", "Thu"}
            /\ LET periods == get_day_periods(d)
               IN  /\ b.period \in 1..Len(periods)
                   /\ periods[b.period].period = b.period
                   /\ periods[b.period].bookable
                   /\ b.period # Len(periods)
                   /\ ~(DayName(d) = "Thu" /\ b.period = 1)

\* a booking is stored and a request for a closed period has been refused
C8_Witness ==
    /\ bookings # {}
    /\ \E r \in Requests : pc[r] = "done" /\ resp[r] = MSG_NOT_BOOKABLE

\* C10: find_or_create_student gives a submission with an email the student
\* record of exactly that email, and goes by the name only when no email is
\* given; so submissions with different emails never share a record.
C10_EmailDecides ==
    [][\A r \in Requests :
           LET email == IF pc[r] = "idle" THEN args'[r].email ELSE args[r].email
           IN  (leader_id[r] = 0 /\ leader_id'[r] # 0 /\ email \notin {"", NULL})
                   => \E x \in students' : x.id = leader_id'[r] /\ x.email = email
      ]_vars

\* C12: a create_booking call that reports failure (the page "Slot already
\* taken" or "Failed: ...") leaves table bookings as it was, both when the
\* slot is taken and when append_to_excel raises after the INSERT.
C12_FailureKeepsBookings ==
    [][\A r \in Requests :
           (pc[r] = "insert_booking" /\ pc'[r] = "done"
            /\ resp'[r] \in {MSG_SLOT_TAKEN, MSG_FAILED})
               => bookings' = bookings
      ]_vars

FailurePages == {MSG_MISSING, MSG_INVALID_DATE, MSG_NOT_BOOKABLE, MSG_SLOT_TAKEN}

\* C13: a submit_booking request that ends in a failure page (missing field,
\* invalid date, period not bookable, slot already taken) has left table
\* students as it was: no row created, no name or grade changed.
C13_FailureKeepsStudents ==
    \A r \in Requests :
        (pc[r] = "done" /\ resp[r] \in FailurePages) => ~ written[r]

\* a booking row is gone, a student's black points are higher, or a setting differs
AdminEffect ==
    \/ \E b \in bookings : b \notin bookings'
    \/ \E x \in students : \E y \in students' :
           x.id = y.id /\ y.black_points > x.black_points
    \/ settings' # settings

\* C11: admin_delete, admin_redflag and admin_settings take effect only in a
\* session that is logged in.  A session is logged in only from a POST of
\* ADMIN_USER and ADMIN_PASS to admin_login until its admin_logout; a request
\* of a session that is not logged in is redirected to admin_login and leaves
\* bookings, students and settings as they were.
C11_AdminOnly ==
    [][/\ AdminEffect => \E s \in Sessions : session[s]
       /\ \A s \in Sessions :
              /\ (~ session[s] /\ session'[s]) => admin_login(s, ADMIN_USER, ADMIN_PASS)
              /\ admin_logout(s) => ~ session'[s]
              /\ (~ session[s] /\
                  \/ \E bid \in 1..(MaxBookingId + 1) : admin_delete(s, bid)
                  \/ \E student_id \in 1..(MaxStudentId + 1) : admin_redflag(s, student_id)
                  \/ \E thr \in ThresholdInputs : admin_settings(s, thr))
                     => /\ store' = store
                        /\ session' = session
                        /\ redirected'[s]
      ]_vars

\* after a red flag given while logged in, the session has logged out and its
\* next admin request has been redirected to the login page
C11_Witness ==
    \E s \in Sessions :
        /\ ~ session[s]
        /\ redirected[s]
        /\ bookings # {}
        /\ \E x \in students : x.black_points > 0

====
